---- MODULE Spec2Model ----
(***************************************************************************)
(* Round and match state machine of zataka-ts.                             *)
(*                                                                         *)
(* PlayerManager (init, startRound, animate, checkRoundOver), Player       *)
(* (init, draw, hole generator), ScoreBoard.incrementScores and the Game   *)
(* controller that wires them (start, newRound, finish, animate).          *)
(*                                                                         *)
(* The raster and the positions are not represented: the result of a       *)
(* player's collision sampling is an input of its draw(), and every        *)
(* Math.random() draw is an input k/RandDen with k in 0..RandDen-1.        *)
(* Values derived from a random draw are kept scaled by RandDen so that    *)
(* they stay integers.  An operation with inputs is an operator that       *)
(* yields the set of its possible results, one per choice of the inputs.   *)
(*                                                                         *)
(* What is driven is fixed at construction:                                *)
(*   host = "game"     : the Game (Game.ts) with its components wired,     *)
(*   host = "direct"   : a PlayerManager through its public API with       *)
(*                       recording callbacks, the way PlayerManager.test   *)
(*                       drives it,                                        *)
(*   host = "player"   : a Player alone, through init() and draw(),        *)
(*   host = "geometry" : the Player's pure computations on chosen inputs,  *)
(*   host = "boot"     : Game.init() on a Game just constructed.           *)
(***************************************************************************)
EXTENDS Integers, Sequences, FiniteSets, TLC

VARIABLES
    host,           \* what is driven, see above
    state,          \* Game.#state ("none" when there is no Game)
    splashCounter,  \* SplashScreen.#counter
    endActive,      \* EndScreen.#active
    endCounter,     \* EndScreen.#counter
    keySpace,       \* KeyboardManager.keyStatus.space
    ready,          \* PlayerTemplate.ready of every template
    running,        \* PlayerManager.#running
    roundCount,     \* PlayerManager.#roundCount
    maxRounds,      \* PlayerManager.#maxRounds
    pool,           \* PlayerManager.#pool, a sequence of Player records
    playerConstants,\* PlayerManager.#playerConstants as the players get them
    matches,        \* history: Game.start() calls so far
    roundsStarted,  \* history: rounds the Game started since Game.start()
    scoreAtStart,   \* history: the roster's scores at the last Game.newRound()
    heldCalls,      \* history: callbacks invoked in the current run of
                    \* consecutive idle animate() calls with the key held
    last,           \* history: what the last operation did
    obs             \* history: what the last call on a component driven
                    \* alone did

vars == <<host, state, splashCounter, endActive, endCounter, keySpace,
          ready, running, roundCount, maxRounds, pool, playerConstants,
          matches, roundsStarted, scoreAtStart, heldCalls, last, obs>>

(***************************************************************************)
(* Bounds                                                                  *)
(***************************************************************************)
NumTemplates == 3     \* player templates handed to the manager
MaxRoundsCfg == 2     \* largest config.maxRounds
FramesBeyond == 3     \* frames animated per round beyond startTime
RandDen == 2          \* resolution of Math.random()
MaxScore == 1         \* largest score reached through incrementScores
MaxRoundCount == 2    \* largest roundCount reached through direct calls
MaxHeld == 2          \* callbacks counted while the continue key is held
PlayerFrames == 8     \* draw() calls on a Player driven alone, per init()
MaxAfterDie == 1      \* largest afterDieTime of a Player driven alone
ShortStart == 5       \* the non-zero startTime of a Player driven alone
MaxMatches == 1       \* matches started from the select screen
EndBeyond == 1        \* listen() calls on the end screen beyond waitTime
SpawnDen == 4         \* resolution of Math.random() in the spawn draws of init()

(***************************************************************************)
(* Program constants and configurations                                    *)
(***************************************************************************)
splashTimeout == 100

\* DEFAULT_CONFIG.waitTime of EndScreen
waitTime == 100

TemplateNames == <<"red", "yellow", "orange", "green", "pink", "blue">>

\* DEFAULT_CONSTANTS of Player: what a manager built without playerConstants
\* (the Game's) hands to its players
DEFAULT_CONSTANTS == [afterDieTime |-> 0, startTime |-> 40]

\* the playerConstants the entity and manager tests pass
TestConstants == [afterDieTime |-> 0, startTime |-> 0]

\* config.physics as far as the round state machine reads it: the hole
\* generator's base values and jitters, in frames
GamePhysics ==
    {[holeRate |-> 2, holeRateRnd |-> 1, holeSize |-> 1, holeSizeRnd |-> 0]}

ApiPhysics ==
    {[holeRate |-> 1, holeRateRnd |-> 0, holeSize |-> 1, holeSizeRnd |-> 0]}

Templates == 1..NumTemplates

Rnd == 0..(RandDen - 1)

NoOp == [op |-> "none", wasRunning |-> FALSE, space |-> FALSE,
         newRound |-> 0, finish |-> 0, arg |-> 0, log |-> <<>>]

\* no call made yet on a Player driven alone
NoObs ==
    [op |-> "none", c |-> 0, out |-> FALSE, trail |-> FALSE,
     moved |-> FALSE, checked |-> FALSE, stroke |-> FALSE, died |-> FALSE,
     calls |-> 0, hitAt |-> 0, deadAt |-> 0, sinceHit |-> 0,
     strokeRun |-> 0, holeRun |-> 0, doneStroke |-> 0, doneHole |-> 0]

(***************************************************************************)
(* Player                                                                  *)
(***************************************************************************)
\* new Player(template, physics, dependencies, constants, onDeath)
createPlayer(t, physics, constants) ==
    [name |-> TemplateNames[t], score |-> 0, dead |-> FALSE,
     holeRate |-> physics.holeRate, holeRateRnd |-> physics.holeRateRnd,
     holeSize |-> physics.holeSize, holeSizeRnd |-> physics.holeSizeRnd,
     afterDieTime |-> constants.afterDieTime, startTime |-> constants.startTime,
     dying |-> FALSE, afterDieCount |-> 0, counter |-> 0,
     hole |-> FALSE, holeCounter |-> 0, nextHole |-> 0, nextHoleSize |-> 0]

\* variant of #getNextHole() with twice the jitter
getNextHole_wide(p, k) ==
    p.holeRate * RandDen + 2 * (2 * k - RandDen) * p.holeRateRnd

\* holeRate + (Math.random() * 2 - 1) * holeRateRnd, scaled by RandDen
getNextHole(p, k) == p.holeRate * RandDen + (2 * k - RandDen) * p.holeRateRnd

\* holeSize + (Math.random() * 2 - 1) * holeSizeRnd, scaled by RandDen
getNextHoleSize(p, k) == p.holeSize * RandDen + (2 * k - RandDen) * p.holeSizeRnd

\* variant of Player.init() that leaves the hole state as it is
PlayerInit_keephole(p, r) ==
    [p EXCEPT !.counter = 0, !.afterDieCount = 0,
              !.dying = FALSE, !.dead = FALSE,
              !.nextHole = getNextHole(p, r[1]),
              !.nextHoleSize = getNextHoleSize(p, r[2])]

\* Player.init(); r = <<draw for the onset, draw for the duration>>
PlayerInit(p, r) ==
    [p EXCEPT !.counter = 0, !.holeCounter = 0, !.afterDieCount = 0,
              !.dying = FALSE, !.hole = FALSE, !.dead = FALSE,
              !.nextHole = getNextHole(p, r[1]),
              !.nextHoleSize = getNextHoleSize(p, r[2])]

\* Player.#createHole()
createHole(p, r) ==
    LET hc == p.holeCounter + 1
    IN  IF hc * RandDen > p.nextHole \/ p.hole
        THEN IF hc * RandDen > p.nextHole + p.nextHoleSize
             THEN [p EXCEPT !.nextHole = getNextHole(p, r[1]),
                            !.nextHoleSize = getNextHoleSize(p, r[2]),
                            !.hole = FALSE, !.holeCounter = 0]
             ELSE [p EXCEPT !.hole = TRUE, !.holeCounter = hc]
        ELSE [p EXCEPT !.holeCounter = hc]

\* Player.#isColliding(): the boundary test returns first, then the two
\* sampled pixels decide; out = the position is outside the play rectangle,
\* trail = one of the two sampled pixels is coloured
isColliding(out, trail) == IF out THEN TRUE ELSE trail

\* variant of draw() that increments the after-death counter before
\* comparing it with afterDieTime
draw_incfirst(p, hit, r) ==
    LET c == p.counter + 1
        p1 == [p EXCEPT !.counter = c]
        idle == [moved |-> FALSE, checked |-> FALSE, stroke |-> FALSE]
        p2 == IF p1.dying THEN [p1 EXCEPT !.afterDieCount = @ + 1] ELSE p1
    IN  IF c < p.startTime /\ c > 2
        THEN [p |-> p1, died |-> FALSE] @@ idle
        ELSE IF p2.dying /\ p2.afterDieCount > p.afterDieTime
        THEN [p |-> [p2 EXCEPT !.dead = TRUE], died |-> TRUE] @@ idle
        ELSE LET p3 == createHole(p2, r)
             IN  IF ~p3.hole
                 THEN [p |-> [p3 EXCEPT !.dying = @ \/ hit], died |-> FALSE,
                       moved |-> TRUE, checked |-> TRUE, stroke |-> TRUE]
                 ELSE [p |-> p3, died |-> FALSE,
                       moved |-> TRUE, checked |-> FALSE, stroke |-> FALSE]

\* variant of draw() whose startup window includes the frame startTime
draw_late(p, hit, r) ==
    LET c == p.counter + 1
        p1 == [p EXCEPT !.counter = c]
        idle == [moved |-> FALSE, checked |-> FALSE, stroke |-> FALSE]
    IN  IF c <= p.startTime /\ c > 2
        THEN [p |-> p1, died |-> FALSE] @@ idle
        ELSE IF p1.dying /\ p1.afterDieCount > p.afterDieTime
        THEN [p |-> [p1 EXCEPT !.dead = TRUE], died |-> TRUE] @@ idle
        ELSE LET p2 == IF p1.dying THEN [p1 EXCEPT !.afterDieCount = @ + 1] ELSE p1
                 p3 == createHole(p2, r)
             IN  IF ~p3.hole
                 THEN [p |-> [p3 EXCEPT !.dying = @ \/ hit], died |-> FALSE,
                       moved |-> TRUE, checked |-> TRUE, stroke |-> TRUE]
                 ELSE [p |-> p3, died |-> FALSE,
                       moved |-> TRUE, checked |-> FALSE, stroke |-> FALSE]

\* variant of draw() that calls #isColliding() also inside a hole
draw_nogate(p, hit, r) ==
    LET c == p.counter + 1
        p1 == [p EXCEPT !.counter = c]
        idle == [moved |-> FALSE, checked |-> FALSE, stroke |-> FALSE]
    IN  IF c < p.startTime /\ c > 2
        THEN [p |-> p1, died |-> FALSE] @@ idle
        ELSE IF p1.dying /\ p1.afterDieCount > p.afterDieTime
        THEN [p |-> [p1 EXCEPT !.dead = TRUE], died |-> TRUE] @@ idle
        ELSE LET p2 == IF p1.dying THEN [p1 EXCEPT !.afterDieCount = @ + 1] ELSE p1
                 p3 == createHole(p2, r)
             IN  [p |-> [p3 EXCEPT !.dying = @ \/ hit], died |-> FALSE,
                  moved |-> TRUE, checked |-> TRUE, stroke |-> ~p3.hole]

\* variant of draw() in which a collision check without a hit clears the
\* dying flag
draw_unsticky(p, hit, r) ==
    LET c == p.counter + 1
        p1 == [p EXCEPT !.counter = c]
        idle == [moved |-> FALSE, checked |-> FALSE, stroke |-> FALSE]
    IN  IF c < p.startTime /\ c > 2
        THEN [p |-> p1, died |-> FALSE] @@ idle
        ELSE IF p1.dying /\ p1.afterDieCount > p.afterDieTime
        THEN [p |-> [p1 EXCEPT !.dead = TRUE], died |-> TRUE] @@ idle
        ELSE LET p2 == IF p1.dying THEN [p1 EXCEPT !.afterDieCount = @ + 1] ELSE p1
                 p3 == createHole(p2, r)
             IN  IF ~p3.hole
                 THEN [p |-> [p3 EXCEPT !.dying = hit], died |-> FALSE,
                       moved |-> TRUE, checked |-> TRUE, stroke |-> TRUE]
                 ELSE [p |-> p3, died |-> FALSE,
                       moved |-> TRUE, checked |-> FALSE, stroke |-> FALSE]

\* variant of draw() without the startup window
draw_nowait(p, hit, r) ==
    LET c == p.counter + 1
        p1 == [p EXCEPT !.counter = c]
        idle == [moved |-> FALSE, checked |-> FALSE, stroke |-> FALSE]
    IN  IF p1.dying /\ p1.afterDieCount > p.afterDieTime
        THEN [p |-> [p1 EXCEPT !.dead = TRUE], died |-> TRUE] @@ idle
        ELSE LET p2 == IF p1.dying THEN [p1 EXCEPT !.afterDieCount = @ + 1] ELSE p1
                 p3 == createHole(p2, r)
             IN  IF ~p3.hole
                 THEN [p |-> [p3 EXCEPT !.dying = @ \/ hit], died |-> FALSE,
                       moved |-> TRUE, checked |-> TRUE, stroke |-> TRUE]
                 ELSE [p |-> p3, died |-> FALSE,
                       moved |-> TRUE, checked |-> FALSE, stroke |-> FALSE]

\* Player.draw(); hit = what #isColliding() returns if it is called, r = the
\* draws of #getNextHole() and #getNextHoleSize() if they are called.
\* The result carries the player, whether the death callback was invoked,
\* and whether the call updated the position (moved), called #isColliding()
\* (checked) and called #drawStroke() (stroke).
draw(p, hit, r) ==
    LET c == p.counter + 1
        p1 == [p EXCEPT !.counter = c]
        idle == [moved |-> FALSE, checked |-> FALSE, stroke |-> FALSE]
    IN  IF c < p.startTime /\ c > 2
        THEN [p |-> p1, died |-> FALSE] @@ idle
        ELSE IF p1.dying /\ p1.afterDieCount > p.afterDieTime
        THEN [p |-> [p1 EXCEPT !.dead = TRUE], died |-> TRUE] @@ idle
        ELSE LET p2 == IF p1.dying
                       THEN [p1 EXCEPT !.afterDieCount = @ + 1]
                       ELSE p1
                 p3 == createHole(p2, r)
             IN  IF ~p3.hole
                 THEN [p |-> [p3 EXCEPT !.dying = @ \/ hit], died |-> FALSE,
                       moved |-> TRUE, checked |-> TRUE, stroke |-> TRUE]
                 ELSE [p |-> p3, died |-> FALSE,
                       moved |-> TRUE, checked |-> FALSE, stroke |-> FALSE]

(***************************************************************************)
(* PlayerManager.  The operators work on a record m holding the manager's  *)
(* fields (running, roundCount, maxRounds, pool), the Game's state, and    *)
(* the counts of what the operation did: callbacks invoked (newRound,      *)
(* finish) and startRound() calls (started).                               *)
(***************************************************************************)
Manager ==
    [running |-> running, roundCount |-> roundCount, maxRounds |-> maxRounds,
     pool |-> pool, newRound |-> 0, finish |-> 0, started |-> 0,
     state |-> state, endActive |-> endActive, endCounter |-> endCounter,
     log |-> <<>>]

\* the loop of checkRoundOver(): TRUE iff some iteration takes the branch
\* that ends the round
RECURSIVE roundOverLoop(_, _, _)
roundOverLoop(ps, i, deadCount) ==
    IF i > Len(ps)
    THEN FALSE
    ELSE LET dc == IF ps[i].dead THEN deadCount + 1 ELSE deadCount
         IN  IF dc >= Len(ps) - 1
             THEN TRUE
             ELSE roundOverLoop(ps, i + 1, dc)

\* variant of checkRoundOver() that ends the round only when no player is
\* left alive
checkRoundOver_all(m) ==
    IF \A i \in 1..Len(m.pool) : m.pool[i].dead
    THEN [m EXCEPT !.running = FALSE, !.roundCount = @ + 1]
    ELSE m

\* variant of checkRoundOver() that needs an opponent: a roster of fewer
\* than two players never ends its round
checkRoundOver_two(m) ==
    IF Len(m.pool) >= 2 /\ roundOverLoop(m.pool, 1, 0)
    THEN [m EXCEPT !.running = FALSE, !.roundCount = @ + 1]
    ELSE m

\* PlayerManager.checkRoundOver()
checkRoundOver(m) ==
    IF roundOverLoop(m.pool, 1, 0)
    THEN [m EXCEPT !.running = FALSE, !.roundCount = @ + 1]
    ELSE m

\* the loop of init(): one Player per ready template, appended to the new
\* pool; existing is looked up in the pool under construction
RECURSIVE initLoop(_, _, _, _)
initLoop(t, rdy, physics, newPool) ==
    IF t > NumTemplates
    THEN newPool
    ELSE IF rdy[t]
    THEN LET player == createPlayer(t, physics, playerConstants)
             found == {j \in 1..Len(newPool) :
                          newPool[j].name = TemplateNames[t]}
             existing == CHOOSE j \in found : \A k \in found : j <= k
             player2 == IF found # {}
                        THEN [player EXCEPT !.score = newPool[existing].score]
                        ELSE player
         IN  initLoop(t + 1, rdy, physics, Append(newPool, player2))
    ELSE initLoop(t + 1, rdy, physics, newPool)

\* variant of init(config) that appends to the roster it already holds
init_keep(m, rdy, cfgMaxRounds, physics) ==
    [m EXCEPT !.maxRounds = cfgMaxRounds, !.roundCount = 0,
              !.pool = initLoop(1, rdy, physics, m.pool)]

\* PlayerManager.init(config)
init(m, rdy, cfgMaxRounds, physics) ==
    [m EXCEPT !.maxRounds = cfgMaxRounds, !.roundCount = 0,
              !.pool = initLoop(1, rdy, physics, <<>>)]

\* the results of Player.init() on p, one per pair of random draws
InitOutcomes(p) == {PlayerInit(p, r) : r \in Rnd \X Rnd}

\* the results of Player.draw() on p, one per sampling result and draws
DrawOutcomes(p) == {draw(p, hit, r) : hit \in BOOLEAN, r \in Rnd \X Rnd}

\* the loop of startRound(): init() of every roster player from i on
RECURSIVE initAll(_, _)
initAll(ps, i) ==
    IF i > Len(ps)
    THEN {ps}
    ELSE UNION {initAll([ps EXCEPT ![i] = q], i + 1) : q \in InitOutcomes(ps[i])}

\* variant of startRound() that also clears the scores
startRound_fresh(m) ==
    {[m EXCEPT !.running = TRUE, !.started = @ + 1,
               !.pool = [i \in 1..Len(ps) |-> [ps[i] EXCEPT !.score = 0]]] :
        ps \in initAll(m.pool, 1)}

\* PlayerManager.startRound()
startRound(m) ==
    {[m EXCEPT !.running = TRUE, !.pool = ps, !.started = @ + 1] :
        ps \in initAll(m.pool, 1)}

\* variant of the loop of animate() that draws dead players too
RECURSIVE drawAll_nodead(_, _)
drawAll_nodead(m, i) ==
    IF i > Len(m.pool)
    THEN {m}
    ELSE UNION {LET m1 == [m EXCEPT !.pool[i] = d.p]
                    m2 == IF d.died THEN checkRoundOver(m1) ELSE m1
                IN  drawAll_nodead(m2, i + 1) : d \in DrawOutcomes(m.pool[i])}

\* an event of an animate() pass: what player who did, and the manager's
\* running and roundCount at that moment
Event(m, who, what) ==
    [who |-> who, what |-> what,
     running |-> m.running, roundCount |-> m.roundCount]

\* variant of the raster accesses in which the stroke is painted before the
\* sample pixels are read
drawEvents_strokefirst(m, i, d) ==
    (IF d.stroke THEN <<Event(m, i, "stroke")>> ELSE <<>>)
        \o (IF d.checked THEN <<Event(m, i, "check")>> ELSE <<>>)

\* the raster accesses of one draw() call with result d, in the order of the
\* code: #isColliding() reads the sample pixels, then #drawStroke() paints
drawEvents(m, i, d) ==
    (IF d.checked THEN <<Event(m, i, "check")>> ELSE <<>>)
        \o (IF d.stroke THEN <<Event(m, i, "stroke")>> ELSE <<>>)

\* variant of the loop of animate() in which the death callbacks are
\* queued and run after the loop
RECURSIVE drawAll_deferred(_, _)
drawAll_deferred(m, i) ==
    IF i > Len(m.pool)
    THEN {LET dead == {j \in 1..Len(m.log) : m.log[j].what = "death"}
              m2 == IF dead # {} THEN checkRoundOver(m) ELSE m
          IN  m2}
    ELSE IF m.pool[i].dead
    THEN drawAll_deferred(m, i + 1)
    ELSE UNION {LET m1 == [m EXCEPT !.pool[i] = d.p,
                                    !.log = @ \o drawEvents(m, i, d)]
                    m3 == IF d.died
                          THEN [m1 EXCEPT !.log = Append(@, Event(m1, i, "death"))]
                          ELSE m1
                IN  drawAll_deferred(m3, i + 1) : d \in DrawOutcomes(m.pool[i])}

\* the loop of animate() while running, from roster index i on: draw() of
\* every player not dead, in roster order; a death runs the death callback
\* (checkRoundOver) before the next player is looked at.  The log keeps the
\* raster accesses of the pass and, for each death, the manager as the
\* callback left it when draw() returned.
RECURSIVE drawAll(_, _)
drawAll(m, i) ==
    IF i > Len(m.pool)
    THEN {m}
    ELSE IF m.pool[i].dead
    THEN drawAll(m, i + 1)
    ELSE UNION {LET m1 == [m EXCEPT !.pool[i] = d.p,
                                    !.log = @ \o drawEvents(m, i, d)]
                    m2 == IF d.died THEN checkRoundOver(m1) ELSE m1
                    m3 == IF d.died
                          THEN [m2 EXCEPT !.log = Append(@, Event(m2, i, "death"))]
                          ELSE m2
                IN  drawAll(m3, i + 1) : d \in DrawOutcomes(m.pool[i])}

\* variant of Game.newRound() that redraws the background without starting
\* the round
newRound_idle(m) == {m}

\* Game.newRound(), the onNewRound callback of the Game wiring
newRound(m) == startRound(m)

\* EndScreen.show(): the screen becomes active and its counter restarts
endShow(m) == [m EXCEPT !.endActive = TRUE, !.endCounter = 0]

\* Game.finish(), the onFinish callback of the Game wiring
finish(m) == endShow([m EXCEPT !.state = "end"])

\* onNewRound as the host wired it
onNewRound(m) ==
    LET m1 == [m EXCEPT !.newRound = @ + 1]
    IN  IF host = "game" THEN newRound(m1) ELSE {m1}

\* onFinish as the host wired it
onFinish(m) ==
    LET m1 == [m EXCEPT !.finish = @ + 1]
    IN  IF host = "game" THEN finish(m1) ELSE m1

\* variant of animate() that compares the round limit with <=
animate_le(m, space) ==
    IF m.running
    THEN drawAll(m, 1)
    ELSE IF space
    THEN IF m.roundCount <= m.maxRounds
         THEN onNewRound(m)
         ELSE {onFinish([m EXCEPT !.running = FALSE])}
    ELSE {m}

\* variant of animate() that reacts to the key only on the first call since
\* it went down
animate_edge(m, space) ==
    IF m.running
    THEN drawAll(m, 1)
    ELSE IF space /\ heldCalls = 0
    THEN IF m.roundCount < m.maxRounds
         THEN onNewRound(m)
         ELSE {onFinish([m EXCEPT !.running = FALSE])}
    ELSE {m}

\* variant of animate() that polls the key after the drawing pass instead of
\* in its else branch
animate_poll(m, space) ==
    UNION {IF ~m1.running /\ space
           THEN IF m1.roundCount < m1.maxRounds
                THEN onNewRound(m1)
                ELSE {onFinish([m1 EXCEPT !.running = FALSE])}
           ELSE {m1} : m1 \in IF m.running THEN drawAll(m, 1) ELSE {m}}

\* PlayerManager.animate(); space = isKeyPressed('space')
animate(m, space) ==
    IF m.running
    THEN drawAll(m, 1)
    ELSE IF space
    THEN IF m.roundCount < m.maxRounds
         THEN onNewRound(m)
         ELSE {onFinish([m EXCEPT !.running = FALSE])}
    ELSE {m}

(***************************************************************************)
(* ScoreBoard                                                              *)
(***************************************************************************)
\* variant of incrementScores() that awards the point to dead players too
incrementScores_all(deadPlayerName, players) ==
    [i \in 1..Len(players) |->
        IF players[i].name # deadPlayerName
        THEN [players[i] EXCEPT !.score = @ + 1]
        ELSE players[i]]

\* ScoreBoard.incrementScores(deadPlayerName, players)
incrementScores(deadPlayerName, players) ==
    [i \in 1..Len(players) |->
        IF players[i].name # deadPlayerName /\ ~players[i].dead
        THEN [players[i] EXCEPT !.score = @ + 1]
        ELSE players[i]]

(***************************************************************************)
(* History                                                                 *)
(***************************************************************************)
Scores(ps) == [i \in 1..Len(ps) |-> ps[i].score]

DeadCount(ps) == Cardinality({i \in 1..Len(ps) : ps[i].dead})

Min(a, b) == IF a < b THEN a ELSE b

\* what an operation named opName that produced m leaves in the history
Did(opName, m) ==
    [op |-> opName, wasRunning |-> running, space |-> keySpace,
     newRound |-> m.newRound, finish |-> m.finish, arg |-> 0, log |-> m.log]

\* an operation the history does not look into
Other == [NoOp EXCEPT !.op = "other"]

\* callbacks invoked while the key is held and the manager idle
HeldAfter(m) ==
    IF ~running /\ keySpace
    THEN Min(heldCalls + m.newRound + m.finish, MaxHeld)
    ELSE 0

\* the manager's fields after an operation that produced m
Commit(m, did) ==
    /\ running' = m.running
    /\ roundCount' = m.roundCount
    /\ maxRounds' = m.maxRounds
    /\ pool' = m.pool
    /\ state' = m.state
    /\ endActive' = m.endActive
    /\ endCounter' = m.endCounter
    /\ last' = did

\* every living player can still be animated within the frame bound
FramesLeft ==
    \A i \in 1..Len(pool) :
        pool[i].dead \/ pool[i].counter < pool[i].startTime + FramesBeyond

(***************************************************************************)
(* KeyboardManager                                                         *)
(***************************************************************************)
\* handleKeyDown for the space key
KeyDown ==
    /\ ~keySpace
    /\ keySpace' = TRUE
    /\ heldCalls' = 0
    /\ last' = Other
    /\ UNCHANGED <<host, state, splashCounter, endActive, endCounter, ready,
                   running, roundCount, maxRounds, pool, playerConstants,
                   matches, roundsStarted, scoreAtStart, obs>>

\* handleKeyUp for the space key
KeyUp ==
    /\ keySpace
    /\ keySpace' = FALSE
    /\ heldCalls' = 0
    /\ last' = Other
    /\ UNCHANGED <<host, state, splashCounter, endActive, endCounter, ready,
                   running, roundCount, maxRounds, pool, playerConstants,
                   matches, roundsStarted, scoreAtStart, obs>>

(***************************************************************************)
(* Game: one action per branch of Game.animate()                           *)
(***************************************************************************)
\* PlayerSelector.#handlePlayerInput: left key sets ready, else right clears
handlePlayerInput(rdy, leftKeys, rightKeys) ==
    [t \in Templates |->
        IF leftKeys[t] THEN TRUE
        ELSE IF rightKeys[t] THEN FALSE
        ELSE rdy[t]]

\* variant of Game.start() that clears the player selector before the
\* manager's init() reads the ready flags
start_clearfirst(m, rdy, cfgMaxRounds, physics) ==
    newRound(init([m EXCEPT !.state = "playing"],
                  [t \in Templates |-> FALSE], cfgMaxRounds, physics))

\* Game.start(): the manager after init(config) and newRound()
start(m, rdy, cfgMaxRounds, physics) ==
    newRound(init([m EXCEPT !.state = "playing"], rdy, cfgMaxRounds, physics))

\* Splash branch: SplashScreen.listen(), dismissed into showSelectScreen()
AnimateSplash ==
    /\ host = "game"
    /\ state = "splash"
    /\ \E mouse1 \in BOOLEAN :
          LET c == splashCounter + 1
          IN  IF mouse1 \/ keySpace \/ c > splashTimeout
              THEN state' = "select" /\ splashCounter' = 0
              ELSE state' = state /\ splashCounter' = c
    /\ heldCalls' = 0
    /\ last' = Other
    /\ UNCHANGED <<host, endActive, endCounter, keySpace, ready, running,
                   roundCount, maxRounds, pool, playerConstants, matches,
                   roundsStarted, scoreAtStart, obs>>

\* Select branch: PlayerSelector.listen(); its start callback is Game.start(),
\* which ends with PlayerSelector.clear() resetting the ready flags
AnimateSelect ==
    /\ host = "game"
    /\ state = "select"
    /\ matches < MaxMatches
    /\ \E leftKeys \in [Templates -> BOOLEAN], rightKeys \in [Templates -> BOOLEAN] :
          LET rdy == handlePlayerInput(ready, leftKeys, rightKeys)
          IN  IF keySpace /\ \E t \in Templates : rdy[t]
              THEN \E cfgMaxRounds \in 1..MaxRoundsCfg, physics \in GamePhysics :
                   \E m \in start(Manager, rdy, cfgMaxRounds, physics) :
                      /\ Commit(m, [NoOp EXCEPT
                                       !.op = "start", !.space = keySpace,
                                       !.arg = Cardinality({t \in Templates : rdy[t]})])
                      /\ ready' = [t \in Templates |-> FALSE]
                      /\ matches' = matches + 1
                      /\ roundsStarted' = 1
                      /\ scoreAtStart' = Scores(m.pool)
              ELSE /\ ready' = rdy
                   /\ last' = Other
                   /\ UNCHANGED <<state, endActive, endCounter, running,
                                  roundCount, maxRounds, pool, matches,
                                  roundsStarted, scoreAtStart>>
    /\ heldCalls' = 0
    /\ UNCHANGED <<host, splashCounter, keySpace, playerConstants, obs>>

\* Playing branch: PlayerManager.animate() with the Game's callbacks
AnimatePlaying ==
    /\ host = "game"
    /\ state = "playing"
    /\ running => FramesLeft
    /\ \E m \in animate(Manager, keySpace) :
          /\ Commit(m, Did("animate", m))
          /\ roundsStarted' = roundsStarted + m.started
          /\ scoreAtStart' = IF m.started > 0 THEN Scores(m.pool)
                             ELSE scoreAtStart
          /\ heldCalls' = HeldAfter(m)
    /\ UNCHANGED <<host, splashCounter, keySpace, ready, playerConstants,
                   matches, obs>>

\* variant of EndScreen.listen() that accepts the key from call waitTime on
endListen_ge(active, counter, space) ==
    IF ~active
    THEN [counter |-> counter, dismiss |-> FALSE]
    ELSE [counter |-> counter + 1,
          dismiss |-> space /\ counter + 1 >= waitTime]

\* EndScreen.listen(onDismiss): the counter after the call and whether
\* onDismiss was invoked; space = isKeyPressed('space')
endListen(active, counter, space) ==
    IF ~active
    THEN [counter |-> counter, dismiss |-> FALSE]
    ELSE [counter |-> counter + 1,
          dismiss |-> space /\ counter + 1 > waitTime]

\* End branch: EndScreen.listen(), dismissed into showSelectScreen()
AnimateEnd ==
    /\ host = "game"
    /\ state = "end"
    /\ endCounter < waitTime + EndBeyond
    /\ LET l == endListen(endActive, endCounter, keySpace)
       IN  /\ endCounter' = l.counter
           /\ state' = IF l.dismiss THEN "select" ELSE state
           /\ last' = Other
    /\ heldCalls' = 0
    /\ UNCHANGED <<host, splashCounter, endActive, keySpace, ready, running,
                   roundCount, maxRounds, pool, playerConstants, matches,
                   roundsStarted, scoreAtStart, obs>>

InitGame ==
    /\ host = "game"
    /\ state = "splash"
    /\ splashCounter = 0
    /\ endActive = FALSE
    /\ endCounter = 0
    /\ keySpace = FALSE
    /\ ready = [t \in Templates |-> FALSE]
    /\ running = FALSE
    /\ roundCount = 0
    /\ maxRounds = 0
    /\ pool = <<>>
    /\ playerConstants = DEFAULT_CONSTANTS
    /\ matches = 0
    /\ roundsStarted = 0
    /\ scoreAtStart = <<>>
    /\ heldCalls = 0
    /\ last = NoOp
    /\ obs = NoObs

Next ==
    \/ KeyDown
    \/ KeyUp
    \/ AnimateSplash
    \/ AnimateSelect
    \/ AnimatePlaying
    \/ AnimateEnd

Spec == InitGame /\ [][Next]_vars

(***************************************************************************)
(* The manager's public API driven directly, with recording callbacks      *)
(***************************************************************************)
\* manager.init({ maxRounds, physics })
ApiInit ==
    /\ host = "direct"
    /\ \E cfgMaxRounds \in 1..MaxRoundsCfg, physics \in ApiPhysics :
          Commit(init(Manager, ready, cfgMaxRounds, physics),
                 [NoOp EXCEPT !.op = "init", !.wasRunning = running,
                              !.arg = cfgMaxRounds])
    /\ heldCalls' = 0
    /\ UNCHANGED <<host, splashCounter, keySpace, ready, playerConstants,
                   matches, roundsStarted, scoreAtStart, obs>>

\* manager.startRound()
ApiStartRound ==
    /\ host = "direct"
    /\ \E m \in startRound(Manager) :
          Commit(m, [NoOp EXCEPT !.op = "startRound", !.wasRunning = running])
    /\ heldCalls' = 0
    /\ UNCHANGED <<host, splashCounter, keySpace, ready, playerConstants,
                   matches, roundsStarted, scoreAtStart, obs>>

\* manager.animate()
ApiAnimate ==
    /\ host = "direct"
    /\ running => FramesLeft /\ roundCount < MaxRoundCount
    /\ \E m \in animate(Manager, keySpace) :
          /\ Commit(m, Did("animate", m))
          /\ heldCalls' = HeldAfter(m)
    /\ UNCHANGED <<host, splashCounter, keySpace, ready, playerConstants,
                   matches, roundsStarted, scoreAtStart, obs>>

\* manager.checkRoundOver()
ApiCheckRoundOver ==
    /\ host = "direct"
    /\ roundCount < MaxRoundCount
    /\ Commit(checkRoundOver(Manager),
              [NoOp EXCEPT !.op = "checkRoundOver", !.wasRunning = running])
    /\ heldCalls' = 0
    /\ UNCHANGED <<host, splashCounter, keySpace, ready, playerConstants,
                   matches, roundsStarted, scoreAtStart, obs>>

\* manager.pool[i].dead = true (IPlayer.dead is a public mutable field)
ApiSetDead ==
    /\ host = "direct"
    /\ \E i \in 1..Len(pool) :
          /\ ~pool[i].dead
          /\ Commit([Manager EXCEPT !.pool[i].dead = TRUE], Other)
    /\ heldCalls' = 0
    /\ UNCHANGED <<host, splashCounter, keySpace, ready, playerConstants,
                   matches, roundsStarted, scoreAtStart, obs>>

\* scoreBoard.incrementScores(name, manager.pool); the name is a template's,
\* whether or not that template has a player in the roster
ApiIncrementScores ==
    /\ host = "direct"
    /\ \A i \in 1..Len(pool) : pool[i].score < MaxScore
    /\ \E t \in Templates :
          Commit([Manager EXCEPT !.pool = incrementScores(TemplateNames[t], pool)],
                 [NoOp EXCEPT !.op = "incrementScores", !.arg = t])
    /\ heldCalls' = 0
    /\ UNCHANGED <<host, splashCounter, keySpace, ready, playerConstants,
                   matches, roundsStarted, scoreAtStart, obs>>

\* a manager constructed with custom templates and the test constants
InitApi ==
    /\ host = "direct"
    /\ state = "none"
    /\ splashCounter = 0
    /\ endActive = FALSE
    /\ endCounter = 0
    /\ keySpace = FALSE
    /\ ready \in [Templates -> BOOLEAN]
    /\ running = FALSE
    /\ roundCount = 0
    /\ maxRounds = 0
    /\ pool = <<>>
    /\ playerConstants = TestConstants
    /\ matches = 0
    /\ roundsStarted = 0
    /\ scoreAtStart = <<>>
    /\ heldCalls = 0
    /\ last = NoOp
    /\ obs = NoObs

NextApi ==
    \/ ApiInit
    \/ ApiStartRound
    \/ ApiAnimate
    \/ ApiCheckRoundOver
    \/ ApiSetDead
    \/ ApiIncrementScores
    \/ KeyDown
    \/ KeyUp

SpecApi == InitApi /\ [][NextApi]_vars

(***************************************************************************)
(* A Player driven alone through init() and draw(), the way Player.test.ts *)
(* drives it; the player is the only element of pool.                      *)
(***************************************************************************)
\* the physics and constants the player is constructed with
PlayerPhysics ==
    {[holeRate |-> 2, holeRateRnd |-> 0, holeSize |-> 1, holeSizeRnd |-> 0],
     [holeRate |-> 2, holeRateRnd |-> 1, holeSize |-> 1, holeSizeRnd |-> 1]}

PlayerConstantsSet ==
    {[afterDieTime |-> t, startTime |-> st] :
        t \in 0..MaxAfterDie, st \in {0, 3, ShortStart}}

\* what a draw() call with result d on player p leaves in the history
Observe(p, d, out, trail) ==
    LET c == d.p.counter
        sr == IF d.moved THEN (IF d.stroke THEN obs.strokeRun + 1 ELSE 0)
              ELSE obs.strokeRun
        hr == IF d.moved THEN (IF d.stroke THEN 0 ELSE obs.holeRun + 1)
              ELSE obs.holeRun
    IN  [op |-> "draw", c |-> c,
         out |-> d.moved /\ out, trail |-> d.moved /\ trail,
         moved |-> d.moved, checked |-> d.checked, stroke |-> d.stroke,
         died |-> d.died,
         calls |-> obs.calls + (IF d.died THEN 1 ELSE 0),
         hitAt |-> IF obs.hitAt = 0 /\ d.p.dying /\ ~p.dying
                   THEN c ELSE obs.hitAt,
         deadAt |-> IF obs.deadAt = 0 /\ d.p.dead THEN c ELSE obs.deadAt,
         sinceHit |-> IF p.dying /\ ~p.dead /\ (d.moved \/ d.died)
                      THEN obs.sinceHit + 1 ELSE obs.sinceHit,
         strokeRun |-> sr, holeRun |-> hr,
         doneStroke |-> IF sr = 0 /\ obs.strokeRun > 0
                        THEN obs.strokeRun ELSE obs.doneStroke,
         doneHole |-> IF hr = 0 /\ obs.holeRun > 0
                      THEN obs.holeRun ELSE obs.doneHole]

\* player.init()
PlayerInitCall ==
    /\ host = "player"
    /\ \E q \in InitOutcomes(pool[1]) : pool' = <<q>>
    /\ obs' = [NoObs EXCEPT !.op = "init"]
    /\ UNCHANGED <<host, state, splashCounter, endActive, endCounter,
                   keySpace, ready, running, roundCount, maxRounds,
                   playerConstants, matches, roundsStarted, scoreAtStart,
                   heldCalls, last>>

\* player.draw(), after init(); out and trail are what #isColliding() finds
\* if it is called
PlayerDrawCall ==
    /\ host = "player"
    /\ obs.op # "none"
    /\ pool[1].counter < PlayerFrames
    /\ \E out \in BOOLEAN, trail \in BOOLEAN, r \in Rnd \X Rnd :
          LET d == draw(pool[1], isColliding(out, trail), r)
          IN  /\ pool' = <<d.p>>
              /\ obs' = Observe(pool[1], d, out, trail)
    /\ UNCHANGED <<host, state, splashCounter, endActive, endCounter,
                   keySpace, ready, running, roundCount, maxRounds,
                   playerConstants, matches, roundsStarted, scoreAtStart,
                   heldCalls, last>>

\* new Player(template, physics, dependencies, constants, onDeath)
InitPlayer ==
    /\ host = "player"
    /\ state = "none"
    /\ splashCounter = 0
    /\ endActive = FALSE
    /\ endCounter = 0
    /\ keySpace = FALSE
    /\ ready = [t \in Templates |-> FALSE]
    /\ running = FALSE
    /\ roundCount = 0
    /\ maxRounds = 0
    /\ playerConstants \in PlayerConstantsSet
    /\ \E physics \in PlayerPhysics :
          pool = <<createPlayer(1, physics, playerConstants)>>
    /\ matches = 0
    /\ roundsStarted = 0
    /\ scoreAtStart = <<>>
    /\ heldCalls = 0
    /\ last = NoOp
    /\ obs = NoObs

NextPlayer ==
    \/ PlayerInitCall
    \/ PlayerDrawCall

SpecPlayer == InitPlayer /\ [][NextPlayer]_vars

(***************************************************************************)
(* Player geometry: #isColliding() and the spawn draws of init(), applied  *)
(* to chosen inputs.  The sample points' coordinates are not computed: the *)
(* pixel data read at the two sample points are inputs.                    *)
(***************************************************************************)
\* PlayerDependencies.dimensions
Dimensions ==
    {[width |-> 201, scoreWidth |-> 100, height |-> 101],
     [width |-> 400, scoreWidth |-> 100, height |-> 300],
     [width |-> 190, scoreWidth |-> 100, height |-> 90]}

\* ImageData.data of one pixel: red, green, blue, alpha
Pixels == [1..4 -> {0, 255}]

\* positions around the edges of the play rectangle
Around(size) == {0 - 1, 0, 1, size - 1, size, size + 1}

\* variant of the boundary test that counts the edges as outside
outOfBounds_incl(x, y, dims) ==
    LET gameWidth == dims.width - dims.scoreWidth
    IN  x <= 0 \/ x >= gameWidth \/ y <= 0 \/ y >= dims.height

\* the boundary test of #isColliding()
outOfBounds(x, y, dims) ==
    LET gameWidth == dims.width - dims.scoreWidth
    IN  x < 0 \/ x > gameWidth \/ y < 0 \/ y > dims.height

\* the pixel test of #isColliding() on the data of the two sample points
coloured(p1, p2) ==
    \/ p1[1] # 0 \/ p1[2] # 0 \/ p1[3] # 0
    \/ p2[1] # 0 \/ p2[2] # 0 \/ p2[3] # 0

\* #isColliding() at position (x, y) with sample pixels p1 and p2
isCollidingAt(x, y, dims, p1, p2) ==
    isColliding(outOfBounds(x, y, dims), coloured(p1, p2))

\* variant of the spawn draws without the margin
spawn_nomargin(dims, k) ==
    LET gameWidth == dims.width - dims.scoreWidth
    IN  [x |-> gameWidth * k[1],
         y |-> dims.height * k[2],
         angle |-> k[3] * 360]

\* the position and heading init() draws, scaled by SpawnDen;
\* k = the three Math.random() draws, each k[i] / SpawnDen
spawn(dims, k) ==
    LET gameWidth == dims.width - dims.scoreWidth
    IN  [x |-> (gameWidth - 100) * k[1] + 50 * SpawnDen,
         y |-> (dims.height - 100) * k[2] + 50 * SpawnDen,
         angle |-> k[3] * 360]

\* the rates the FPS provider reports; 0 stands for undefined and for 0
FpsValues == {0, 15, 20, 30, 60, 120}

\* physics.curveSpeed, degrees per frame at 60 fps
CurveSpeeds == {2, 4}

\* headings before the call
Angles == {0, 90, 358}

\* curveSpeed * speedMultiplier, the multiplier being 60 / fps for a
\* reported rate above 20 and 1 otherwise
adjustedAngSpeed(curveSpeed, fps) ==
    IF fps # 0 /\ fps > 20 THEN (curveSpeed * 60) \div fps ELSE curveSpeed

\* variant of the steering step that looks at the right key first
steer_rightfirst(angle, curveSpeed, fps, leftHeld, rightHeld) ==
    IF rightHeld THEN angle - adjustedAngSpeed(curveSpeed, fps)
    ELSE IF leftHeld THEN angle + adjustedAngSpeed(curveSpeed, fps)
    ELSE angle

\* the steering step of draw(): the heading after it; leftHeld and rightHeld
\* are isKeyPressed(left) and isKeyPressed(right)
steer(angle, curveSpeed, fps, leftHeld, rightHeld) ==
    IF leftHeld THEN angle + adjustedAngSpeed(curveSpeed, fps)
    ELSE IF rightHeld THEN angle - adjustedAngSpeed(curveSpeed, fps)
    ELSE angle

\* the arguments of the calls: a position around the edges with the data of
\* the two sample pixels, dimensions with three random draws, or a heading
\* with the turn rate, the reported frame rate and the two turn keys
SteerArgs ==
    [op : {"args"}, fn : {"steer"}, angle : Angles, curveSpeed : CurveSpeeds,
     fps : FpsValues, left : BOOLEAN, right : BOOLEAN]

CollisionArgs ==
    UNION {[op : {"args"}, fn : {"isColliding"}, dims : {dims},
            x : Around(dims.width - dims.scoreWidth), y : Around(dims.height),
            p1 : Pixels, p2 : Pixels] : dims \in Dimensions}

SpawnArgs ==
    [op : {"args"}, fn : {"spawn"}, dims : Dimensions,
     k : (0..(SpawnDen - 1)) \X (0..(SpawnDen - 1)) \X (0..(SpawnDen - 1))]

\* #isColliding() called at a position with given sample pixels
CallIsColliding ==
    /\ host = "geometry"
    /\ obs.op = "args" /\ obs.fn = "isColliding"
    /\ obs' = [op |-> "isColliding", dims |-> obs.dims,
               x |-> obs.x, y |-> obs.y, p1 |-> obs.p1, p2 |-> obs.p2,
               result |-> isCollidingAt(obs.x, obs.y, obs.dims, obs.p1, obs.p2)]
    /\ UNCHANGED <<host, state, splashCounter, endActive, endCounter,
                   keySpace, ready, running, roundCount, maxRounds, pool,
                   playerConstants, matches, roundsStarted, scoreAtStart,
                   heldCalls, last>>

\* the spawn draws of init() for given dimensions
CallSpawn ==
    /\ host = "geometry"
    /\ obs.op = "args" /\ obs.fn = "spawn"
    /\ obs' = [op |-> "spawn", dims |-> obs.dims, k |-> obs.k,
               at |-> spawn(obs.dims, obs.k)]
    /\ UNCHANGED <<host, state, splashCounter, endActive, endCounter,
                   keySpace, ready, running, roundCount, maxRounds, pool,
                   playerConstants, matches, roundsStarted, scoreAtStart,
                   heldCalls, last>>

\* the steering step of a processed draw() call
CallSteer ==
    /\ host = "geometry"
    /\ obs.op = "args" /\ obs.fn = "steer"
    /\ obs' = [op |-> "steer", angle |-> obs.angle,
               curveSpeed |-> obs.curveSpeed, fps |-> obs.fps,
               left |-> obs.left, right |-> obs.right,
               result |-> steer(obs.angle, obs.curveSpeed, obs.fps,
                                obs.left, obs.right)]
    /\ UNCHANGED <<host, state, splashCounter, endActive, endCounter,
                   keySpace, ready, running, roundCount, maxRounds, pool,
                   playerConstants, matches, roundsStarted, scoreAtStart,
                   heldCalls, last>>

InitGeometry ==
    /\ host = "geometry"
    /\ state = "none"
    /\ splashCounter = 0
    /\ endActive = FALSE
    /\ endCounter = 0
    /\ keySpace = FALSE
    /\ ready = [t \in Templates |-> FALSE]
    /\ running = FALSE
    /\ roundCount = 0
    /\ maxRounds = 0
    /\ pool = <<>>
    /\ playerConstants = DEFAULT_CONSTANTS
    /\ matches = 0
    /\ roundsStarted = 0
    /\ scoreAtStart = <<>>
    /\ heldCalls = 0
    /\ last = NoOp
    /\ obs \in CollisionArgs \cup SpawnArgs \cup SteerArgs

NextGeometry ==
    \/ CallIsColliding
    \/ CallSpawn
    \/ CallSteer

SpecGeometry == InitGeometry /\ [][NextGeometry]_vars

(***************************************************************************)
(* Game.init() and Game.onSizeChange() on a Game just constructed.  The    *)
(* Game object is in obs: the fields assigned so far (components), the     *)
(* canvases in the document, #width and #height, and for the last call the *)
(* field it read while unassigned (missing), the read then throwing a      *)
(* TypeError that ends the call.  getContext('2d') is taken to succeed.    *)
(***************************************************************************)
LayerNames == {"main", "texts", "screens", "score"}

\* the components #initializeComponents() assigns, in its order
ComponentNames ==
    <<"fpsCounter", "playerManager", "scoreBoard", "background", "splash",
      "end", "playerSelector", "advancedSettings">>

\* window.innerWidth and window.innerHeight
WindowWidths == {640, 1024, 1920}
WindowHeights == {480, 768}

\* a step of a call: skipped once an earlier step of the call has thrown
Reads(g, field) ==
    IF g.missing = "none" /\ field \notin g.components
    THEN [g EXCEPT !.missing = field]
    ELSE g

\* Game.#createLayers(): the canvases that are not in the document are
\* created, and #layers holds all four
createLayers(g) ==
    IF g.missing # "none" THEN g
    ELSE [g EXCEPT !.canvases = LayerNames,
                   !.components = @ \cup {"layers"}]

\* Game.#calculateSize(): sets #width and #height, sizes every layer and
\* positions the score canvas by #scoreBoard.width
calculateSize(g, w, h) ==
    IF g.missing # "none" THEN g
    ELSE Reads(Reads([g EXCEPT !.width = w, !.height = h], "layers"),
               "scoreBoard")

\* Game.#initializeComponents(): reads #layers, assigns every component
initializeComponents(g) ==
    IF g.missing # "none" THEN g
    ELSE LET g1 == Reads(g, "layers")
         IN  IF g1.missing # "none" THEN g1
             ELSE [g1 EXCEPT !.components =
                      @ \cup {ComponentNames[i] : i \in 1..Len(ComponentNames)}]

\* Game.showSplashScreen(): clears the player selector with the manager's
\* templates, shows the splash
showSplashScreen(g) ==
    IF g.missing # "none" THEN g
    ELSE Reads(Reads(Reads(g, "playerSelector"), "playerManager"), "splash")

\* Game.init()
GameInit(g, w, h) ==
    showSplashScreen(
        initializeComponents(
            calculateSize(createLayers([g EXCEPT !.missing = "none"]), w, h)))

\* Game.onSizeChange() in the Splash state
onSizeChange(g, w, h) ==
    showSplashScreen(calculateSize([g EXCEPT !.missing = "none"], w, h))

\* game.init()
CallGameInit ==
    /\ host = "boot"
    /\ \E w \in WindowWidths, h \in WindowHeights :
          obs' = [GameInit(obs, w, h) EXCEPT !.op = "init"]
    /\ UNCHANGED <<host, state, splashCounter, endActive, endCounter,
                   keySpace, ready, running, roundCount, maxRounds, pool,
                   playerConstants, matches, roundsStarted, scoreAtStart,
                   heldCalls, last>>

\* game.onSizeChange(), the window's resize handler
CallOnSizeChange ==
    /\ host = "boot"
    /\ \E w \in WindowWidths, h \in WindowHeights :
          obs' = [onSizeChange(obs, w, h) EXCEPT !.op = "onSizeChange"]
    /\ UNCHANGED <<host, state, splashCounter, endActive, endCounter,
                   keySpace, ready, running, roundCount, maxRounds, pool,
                   playerConstants, matches, roundsStarted, scoreAtStart,
                   heldCalls, last>>

\* new Game(config): no component assigned; any of the canvases may be in
\* the document already
InitBoot ==
    /\ host = "boot"
    /\ state = "splash"
    /\ splashCounter = 0
    /\ endActive = FALSE
    /\ endCounter = 0
    /\ keySpace = FALSE
    /\ ready = [t \in Templates |-> FALSE]
    /\ running = FALSE
    /\ roundCount = 0
    /\ maxRounds = 0
    /\ pool = <<>>
    /\ playerConstants = DEFAULT_CONSTANTS
    /\ matches = 0
    /\ roundsStarted = 0
    /\ scoreAtStart = <<>>
    /\ heldCalls = 0
    /\ last = NoOp
    /\ \E canvases \in SUBSET LayerNames :
          obs = [op |-> "new", components |-> {}, canvases |-> canvases,
                 width |-> 0, height |-> 0, missing |-> "none"]

NextBoot ==
    \/ CallGameInit
    \/ CallOnSizeChange

SpecBoot == InitBoot /\ [][NextBoot]_vars

(***************************************************************************)
(* Properties of the round and match life cycle                            *)
(***************************************************************************)

\* C1: an animate() pass of a running round in which two or more players
\* become dead ends the round exactly once: running is false afterwards
\* and roundCount has grown by exactly 1.
C1_RoundEndsOnce ==
    [][(/\ last'.op = "animate"
        /\ running
        /\ Len(pool') = Len(pool)
        /\ DeadCount(pool') >= DeadCount(pool) + 2)
       => (~running' /\ roundCount' = roundCount + 1)]_vars

\* C2: in a match driven by the Game (startRound() at the start and on
\* every onNewRound), roundCount stays within 0..maxRounds.
C2_RoundCountInRange ==
    (host = "game" /\ maxRounds >= 1)
        => (0 <= roundCount /\ roundCount <= maxRounds)

\* C3: in a match driven by the Game, onFinish is invoked only when exactly
\* maxRounds rounds have been started (and, the manager being idle when it
\* polls the key, ended).
C3_ExactlyMaxRounds ==
    (host = "game" /\ last.op = "animate" /\ last.finish > 0)
        => roundsStarted = maxRounds

\* C4: when a round of two or more players ends with exactly one player not
\* dead, the survivor's score is greater than at the start of the round;
\* and no animate() pass raises the score of a player that is already dead.
C4_SurvivorScores ==
    [][/\ (/\ last'.op = "animate"
           /\ running /\ ~running'
           /\ Len(pool') >= 2
           /\ Len(scoreAtStart) = Len(pool')
           /\ DeadCount(pool') = Len(pool') - 1)
          => \A i \in 1..Len(pool') :
                ~pool'[i].dead => pool'[i].score > scoreAtStart[i]
       /\ (last'.op = "animate" /\ Len(pool') = Len(pool))
          => \A i \in 1..Len(pool) :
                pool[i].dead => pool'[i].score <= pool[i].score]_vars

\* C5: init() on a manager that holds a roster gives each new player the
\* score of the same-named player of the previous roster, and 0 to a player
\* without a same-named predecessor.
C5_ScorePreserved ==
    [][last'.op = "init"
       => \A i \in 1..Len(pool') :
             LET prev == {j \in 1..Len(pool) : pool[j].name = pool'[i].name}
             IN  IF prev = {}
                 THEN pool'[i].score = 0
                 ELSE \A j \in prev : pool'[i].score = pool[j].score]_vars

\* C6: an animate() call made while not running with the continue key
\* pressed invokes exactly one callback, onNewRound if roundCount <
\* maxRounds and onFinish otherwise; and no animate() call invokes
\* onNewRound once roundCount has reached maxRounds.  (An animate() call
\* made while not running leaves roundCount and maxRounds as they were, so
\* the state after the call shows the values the call compared.)
C6_OneCallback ==
    /\ (last.op = "animate" /\ ~last.wasRunning /\ last.space)
          => IF roundCount < maxRounds
             THEN last.newRound = 1 /\ last.finish = 0
             ELSE last.newRound = 0 /\ last.finish = 1
    /\ (last.op = "animate" /\ roundCount >= maxRounds)
          => last.newRound = 0

\* an idle animate() with the key pressed after the last round: onFinish
C6_Witness ==
    /\ last.op = "animate" /\ ~last.wasRunning /\ last.space
    /\ maxRounds >= 1 /\ roundCount >= maxRounds
    /\ last.finish = 1 /\ last.newRound = 0

\* C7 as stated: while the key stays pressed over consecutive animate()
\* calls with running false, at most the first of them invokes a callback.
C7_PositiveEdge == heldCalls <= 1

\* C7 as the code has it: every animate() call made while not running
\* invokes exactly one callback if the key is pressed during the call,
\* whether or not it was already pressed during the calls before, and none
\* if it is not pressed.
C7_LevelTriggered ==
    (last.op = "animate" /\ ~last.wasRunning)
        => last.newRound + last.finish = (IF last.space THEN 1 ELSE 0)

\* the key held over two consecutive idle animate() calls, both answered
C7_Witness ==
    /\ last.op = "animate" /\ ~last.wasRunning /\ last.space
    /\ ~running
    /\ heldCalls = 2

\* C8: an animate() call made while running invokes neither onNewRound nor
\* onFinish, whatever the key state, also when the round ends in that call.
C8_NoCallbackWhileRunning ==
    (last.op = "animate" /\ last.wasRunning)
        => (last.newRound = 0 /\ last.finish = 0)

\* the round ended in an animate() pass made with the key pressed
C8_Witness ==
    /\ last.op = "animate" /\ last.wasRunning /\ last.space
    /\ ~running
    /\ last.newRound = 0 /\ last.finish = 0

\* C9: for a roster of N >= 2, checkRoundOver() called while running sets
\* running false and adds 1 to roundCount if at least N - 1 players are
\* dead, and otherwise leaves both unchanged.
C9_Threshold ==
    [][(last'.op = "checkRoundOver" /\ running /\ Len(pool) >= 2)
       => IF DeadCount(pool) >= Len(pool) - 1
          THEN ~running' /\ roundCount' = roundCount + 1
          ELSE running' /\ roundCount' = roundCount]_vars

\* checkRoundOver() ended a running round of three with one survivor
C9_Witness ==
    /\ last.op = "checkRoundOver" /\ last.wasRunning
    /\ ~running
    /\ Len(pool) = 3 /\ DeadCount(pool) = 2
    /\ roundCount = 1

\* C10: roundCount changes only by init() resetting it to 0 and by a
\* checkRoundOver() that takes running from true to false adding 1; a
\* checkRoundOver() call made while running is false leaves it unchanged.
C10_RoundCountChanges ==
    [][/\ roundCount' # roundCount
          => \/ (last'.op = "init" /\ roundCount' = 0)
             \/ (running /\ ~running' /\ roundCount' = roundCount + 1)
       /\ (last'.op = "checkRoundOver" /\ ~running)
          => roundCount' = roundCount]_vars

\* C11: with a roster of zero players, a checkRoundOver() call made while
\* running ends the round: running is false afterwards and roundCount has
\* grown by 1.
C11_EmptyRosterEnds ==
    [][(last'.op = "checkRoundOver" /\ running /\ Len(pool) = 0)
       => (~running' /\ roundCount' = roundCount + 1)]_vars

C13_DeathCallbackOnce ==
    [][/\ obs'.calls <= 1
       /\ (obs'.op = "draw" /\ pool[1].dead)
          => (~obs'.died /\ ~obs'.moved /\ ~obs'.stroke)]_vars

\* C14: if draw() call k is the first to flag the player dying, then with
\* afterDieTime = T the player is not dead after calls k .. k+T+1 and is
\* dead from call k+T+2 on, the call in which it became dead.
C14_DeadAfterGrace ==
    (obs.op = "draw" /\ obs.hitAt > 0)
        => LET due == obs.hitAt + pool[1].afterDieTime + 2
           IN  IF obs.c < due
               THEN ~pool[1].dead /\ obs.calls = 0
               ELSE pool[1].dead /\ obs.deadAt = due

C16_StartupWindow ==
    [][obs'.op = "draw"
       => /\ (2 < obs'.c /\ obs'.c < pool[1].startTime)
             => /\ pool'[1] = [pool[1] EXCEPT !.counter = obs'.c]
                /\ ~obs'.moved /\ ~obs'.checked /\ ~obs'.stroke /\ ~obs'.died
          /\ (obs'.c = pool[1].startTime /\ pool[1].startTime > 2)
             => (obs'.moved \/ obs'.died)]_vars

\* the first call after a window of at least one skipped frame moved the
\* player
C16_Witness ==
    /\ obs.op = "draw" /\ pool[1].startTime > 3
    /\ obs.c = pool[1].startTime
    /\ obs.moved

\* C17: with startTime > 2, draw() calls 1 and 2 leave the position
\* unchanged, perform no collision check and do not flag the player dying.
C17_FirstFramesRenderOnly ==
    (obs.op = "draw" /\ obs.c \in {1, 2} /\ pool[1].startTime > 2)
        => (~obs.moved /\ ~obs.checked /\ ~pool[1].dying)

\* C18: with holeRateRnd = 0 and holeSizeRnd = 0, over the processed draw()
\* calls of a player not flagged dying, every run of consecutive calls with
\* a stroke has exactly holeRate calls and every run of consecutive calls
\* without one has exactly holeSize calls.
C18_ExactCycle ==
    (pool[1].holeRateRnd = 0 /\ pool[1].holeSizeRnd = 0 /\ obs.hitAt = 0)
        => /\ obs.strokeRun <= pool[1].holeRate
           /\ obs.holeRun <= pool[1].holeSize
           /\ obs.doneStroke \in {0, pool[1].holeRate}
           /\ obs.doneHole \in {0, pool[1].holeSize}

C20_BoundaryBeforeHole ==
    (obs.op = "draw" /\ obs.moved /\ pool[1].hole /\ obs.out)
        => pool[1].dying

(***************************************************************************)
(* Properties of startRound(), of the animate() pass and of init()         *)
(***************************************************************************)

\* C21: after startRound(), from whatever state it was called in, running
\* is true and every roster player has dead, dying and hole false and its
\* frame, hole and after-death counters at 0.
C21_RoundStartsClean ==
    last.op = "startRound"
        => /\ running
           /\ \A i \in 1..Len(pool) :
                 /\ ~pool[i].dead /\ ~pool[i].dying /\ ~pool[i].hole
                 /\ pool[i].counter = 0
                 /\ pool[i].holeCounter = 0
                 /\ pool[i].afterDieCount = 0

\* startRound() called in the middle of a round of three players
C21_Witness ==
    /\ last.op = "startRound" /\ last.wasRunning
    /\ running
    /\ Len(pool) = 3

\* C22: startRound() leaves every player's score, the roster's members and
\* their order, roundCount and maxRounds unchanged.
C22_RoundStartKeeps ==
    [][last'.op = "startRound"
       => /\ Len(pool') = Len(pool)
          /\ \A i \in 1..Len(pool) :
                /\ pool'[i].name = pool[i].name
                /\ pool'[i].score = pool[i].score
          /\ roundCount' = roundCount
          /\ maxRounds' = maxRounds]_vars

\* startRound() on a roster with a score, after a round was counted
C22_Witness ==
    /\ last.op = "startRound"
    /\ roundCount > 0
    /\ \E i \in 1..Len(pool) : pool[i].score > 0

\* C23: an animate() call leaves every roster player whose dead flag is set
\* exactly as it was: its draw() is not called (the frame counter would
\* grow), so it draws nothing and triggers no death callback.
C23_DeadNotDrawn ==
    [][last'.op = "animate"
       => /\ Len(pool') = Len(pool)
          /\ \A i \in 1..Len(pool) :
                pool[i].dead
                    => /\ pool'[i] = pool[i]
                       /\ \A k \in 1..Len(last'.log) : last'.log[k].who # i]_vars

\* a running pass drew a living player and left a dead one behind it
C23_Witness ==
    /\ last.op = "animate" /\ last.wasRunning /\ running
    /\ \E i, j \in 1..Len(pool) :
          /\ pool[i].dead /\ ~pool[j].dead
          /\ pool[i].counter < pool[j].counter

\* C24: once checkRoundOver() has set running to false, no roster player is
\* updated: an animate() call made while not running changes no player,
\* and in the pass in which the round ends, the players that come after
\* the one whose death ended it are left as they were.
C24_NoUpdateAfterRoundEnd ==
    [][(last'.op = "animate" /\ last'.newRound = 0 /\ Len(pool') = Len(pool))
       => /\ ~running => pool' = pool
          /\ \A i \in 1..Len(pool) :
                (/\ running
                 /\ ~pool[i].dead /\ pool'[i].dead
                 /\ Cardinality({j \in 1..i : pool'[j].dead})
                      + Cardinality({j \in (i + 1)..Len(pool) : pool[j].dead})
                      >= Len(pool) - 1)
                    => \A j \in (i + 1)..Len(pool) : pool'[j] = pool[j]]_vars

\* C25: within one animate() pass the living players are drawn one at a
\* time in roster order, each reading its sample pixels before painting its
\* own stroke: at the moment player i checks for a collision, the strokes
\* painted so far in the pass are exactly the strokes the pass paints for
\* players earlier in the roster than i.
C25_RosterOrder ==
    last.op = "animate"
        => \A k \in 1..Len(last.log) :
              last.log[k].what = "check"
                  => \A n \in 1..Len(last.log) :
                        last.log[n].what = "stroke"
                            => (n < k <=> last.log[n].who < last.log[k].who)

\* a pass in which three players each checked and painted
C25_Witness ==
    /\ last.op = "animate" /\ last.wasRunning
    /\ \A i \in 1..3 :
          \E k, n \in 1..Len(last.log) :
             /\ last.log[k].who = i /\ last.log[k].what = "check"
             /\ last.log[n].who = i /\ last.log[n].what = "stroke"

\* C26: the death callback is synchronous: when a draw() call that set dead
\* returns, checkRoundOver() has already run on the roster as it then is
\* (running false and roundCount raised if it found enough dead players),
\* and no later player of the pass has been drawn yet.
C26_SynchronousDeath ==
    [][last'.op = "animate"
       => \A k \in 1..Len(last'.log) :
             last'.log[k].what = "death"
                 => LET i == last'.log[k].who
                        deadThen ==
                            Cardinality({j \in 1..i : pool'[j].dead})
                            + Cardinality({j \in (i + 1)..Len(pool) : pool[j].dead})
                    IN  /\ \A n \in 1..(k - 1) : last'.log[n].who <= i
                        /\ \A n \in (k + 1)..Len(last'.log) : last'.log[n].who > i
                        /\ deadThen >= Len(pool) - 1
                               => /\ ~last'.log[k].running
                                  /\ last'.log[k].roundCount > roundCount
                        /\ deadThen < Len(pool) - 1
                               => /\ last'.log[k].running
                                  /\ last'.log[k].roundCount = roundCount]_vars

\* a death that ended the round, followed in the same pass by a later
\* player's draw()
C26_Witness ==
    /\ last.op = "animate" /\ last.wasRunning
    /\ \E k, n \in 1..Len(last.log) :
          /\ k < n
          /\ last.log[k].what = "death" /\ ~last.log[k].running
          /\ last.log[n].who > last.log[k].who

\* the templates whose ready flag is set, in template order
ReadyTemplates ==
    SelectSeq([t \in Templates |-> t], LAMBDA t : ready[t])

\* C27: after init(config) the roster holds exactly one player per ready
\* template, in template order, each as its constructor leaves it (nothing
\* of a previous roster remains; the score is not looked at here), with
\* roundCount = 0 and maxRounds = config.maxRounds.
C27_RosterFromReady ==
    last.op = "init"
        => /\ Len(pool) = Len(ReadyTemplates)
           /\ \A i \in 1..Len(pool) :
                 \E physics \in ApiPhysics :
                    [pool[i] EXCEPT !.score = 0]
                        = createPlayer(ReadyTemplates[i], physics, playerConstants)
           /\ roundCount = 0
           /\ maxRounds = last.arg

\* init() called during a running round, templates 1 and 3 ready
C27_Witness ==
    /\ last.op = "init" /\ last.wasRunning
    /\ ready[1] /\ ~ready[2] /\ ready[3]
    /\ Len(pool) = 2

\* C28: after init() running is false, whatever state init() was called in.
C28_InitNotRunning ==
    last.op = "init" => ~running

(***************************************************************************)
(* Properties of the Player's geometry                                     *)
(***************************************************************************)

\* C29: #isColliding() returns true iff the position is strictly outside
\* the rectangle [0, width - scoreWidth] x [0, height] or one of the two
\* sample pixels has a non-zero red, green or blue channel; alpha does not
\* count, and with black samples inside the rectangle it returns false.
C29_CollisionTest ==
    obs.op = "isColliding"
        => LET outside == \/ obs.x < 0
                          \/ obs.x > obs.dims.width - obs.dims.scoreWidth
                          \/ obs.y < 0
                          \/ obs.y > obs.dims.height
               rgb == \E c \in 1..3 : obs.p1[c] # 0 \/ obs.p2[c] # 0
           IN  /\ obs.result <=> (outside \/ rgb)
               /\ (~outside /\ \A c \in 1..3 : obs.p1[c] = 0 /\ obs.p2[c] = 0)
                     => ~obs.result

\* on the right edge of the rectangle, black but opaque samples: no hit
C29_Witness ==
    /\ obs.op = "isColliding"
    /\ obs.x = obs.dims.width - obs.dims.scoreWidth /\ obs.y = 0
    /\ \A c \in 1..3 : obs.p1[c] = 0 /\ obs.p2[c] = 0
    /\ obs.p1[4] = 255
    /\ ~obs.result

\* C30: for dimensions with width - scoreWidth > 100 and height > 100,
\* init() places the player at x in [50, width - scoreWidth - 50] and y in
\* [50, height - 50] with heading in [0, 360), for every random draw.
C30_SpawnInside ==
    (/\ obs.op = "spawn"
     /\ obs.dims.width - obs.dims.scoreWidth > 100
     /\ obs.dims.height > 100)
        => /\ 50 * SpawnDen <= obs.at.x
           /\ obs.at.x <= (obs.dims.width - obs.dims.scoreWidth - 50) * SpawnDen
           /\ 50 * SpawnDen <= obs.at.y
           /\ obs.at.y <= (obs.dims.height - 50) * SpawnDen
           /\ 0 <= obs.at.angle
           /\ obs.at.angle < 360 * SpawnDen

\* the largest draws on the narrowest admissible area
C30_Witness ==
    /\ obs.op = "spawn"
    /\ obs.dims.width - obs.dims.scoreWidth = 101 /\ obs.dims.height = 101
    /\ \A i \in 1..3 : obs.k[i] = SpawnDen - 1

\* C32 as stated: the steering step changes the heading by +turnRate if the
\* turn-positive key is held (also with the turn-negative key held), by
\* -turnRate if only the turn-negative key is held, and not at all if
\* neither is held, turnRate being the configured turn rate.
C32_TurnByRate ==
    obs.op = "steer"
        => obs.result - obs.angle
              = (IF obs.left THEN obs.curveSpeed
                 ELSE IF obs.right THEN 0 - obs.curveSpeed
                 ELSE 0)

\* C32 as the code has it: the heading changes by the turn rate of the call,
\* which is the configured turn rate times 60 / fps when the reported frame
\* rate is above 20 and the configured turn rate otherwise: by plus that
\* amount if the turn-positive key is held (also with the turn-negative key
\* held), by minus that amount if only the turn-negative key is held, and
\* not at all if neither is held.
C32_TurnByScaledRate ==
    obs.op = "steer"
        => LET rate == IF obs.fps > 20
                       THEN (obs.curveSpeed * 60) \div obs.fps
                       ELSE obs.curveSpeed
           IN  obs.result - obs.angle
                  = (IF obs.left THEN rate
                     ELSE IF obs.right THEN 0 - rate
                     ELSE 0)

\* both keys held at 30 fps: the heading grew by twice the configured rate
C32_Witness ==
    /\ obs.op = "steer" /\ obs.left /\ obs.right
    /\ obs.fps = 30
    /\ obs.result = obs.angle + 2 * obs.curveSpeed

\* C33: with startTime >= 3 no player is dead while its frame counter is
\* below startTime, whatever afterDieTime and also after a collision found
\* in draw() call 1 or 2 (dead is set by draw() only; a dead player's
\* counter stands still); hence when an animate() pass ends the round of a
\* roster of two or more, every player's frame counter has reached
\* startTime.
C33_NoDeathBeforeStart ==
    /\ \A i \in 1..Len(pool) :
          (pool[i].startTime >= 3 /\ pool[i].dead)
              => pool[i].counter >= pool[i].startTime
    /\ (last.op = "animate" /\ last.wasRunning /\ ~running /\ Len(pool) >= 2)
          => \A i \in 1..Len(pool) :
                pool[i].startTime >= 3
                    => pool[i].counter >= pool[i].startTime

\* a round of two ended in the pass of frame startTime: the player that
\* died there was flagged dying in draw() call 1, before the window
C33_Witness ==
    /\ last.op = "animate" /\ last.wasRunning /\ ~running
    /\ Len(pool) = 2
    /\ \E i \in 1..2 :
          /\ pool[i].dead /\ pool[i].startTime >= 3
          /\ pool[i].counter = pool[i].startTime

\* C34: from init() on, the hole onset threshold lies in [holeRate -
\* holeRateRnd, holeRate + holeRateRnd] and the hole duration in [holeSize -
\* holeSizeRnd, holeSize + holeSizeRnd]; a draw() call chooses a new pair
\* only if it is processed and the incremented hole counter exceeds onset +
\* duration, and that call leaves the hole counter at 0 and the player
\* outside a hole; every other draw() call leaves the pair as it was.
C34_HoleThresholds ==
    [][/\ obs'.op # "none"
          => LET p == pool'[1]
             IN  /\ (p.holeRate - p.holeRateRnd) * RandDen <= p.nextHole
                 /\ p.nextHole <= (p.holeRate + p.holeRateRnd) * RandDen
                 /\ (p.holeSize - p.holeSizeRnd) * RandDen <= p.nextHoleSize
                 /\ p.nextHoleSize <= (p.holeSize + p.holeSizeRnd) * RandDen
       /\ obs'.op = "draw"
          => LET hc == pool[1].holeCounter + 1
                 exceeded ==
                     /\ obs'.moved
                     /\ hc * RandDen > pool[1].nextHole + pool[1].nextHoleSize
             IN  IF exceeded
                 THEN pool'[1].holeCounter = 0 /\ ~pool'[1].hole
                 ELSE /\ pool'[1].nextHole = pool[1].nextHole
                      /\ pool'[1].nextHoleSize = pool[1].nextHoleSize
                      /\ pool'[1].holeCounter
                            = (IF obs'.moved THEN hc ELSE pool[1].holeCounter)]_vars

\* a draw() call that closed a hole and drew the smallest onset and the
\* smallest duration of a jittered configuration
C34_Witness ==
    /\ obs.op = "draw" /\ obs.moved
    /\ pool[1].holeCounter = 0 /\ ~pool[1].hole
    /\ pool[1].holeRateRnd > 0 /\ pool[1].holeSizeRnd > 0
    /\ pool[1].nextHole = (pool[1].holeRate - pool[1].holeRateRnd) * RandDen
    /\ pool[1].nextHoleSize = (pool[1].holeSize - pool[1].holeSizeRnd) * RandDen

\* C35: a draw() call on a player flagged dying leaves it flagged, also
\* when its collision check reports no hit; a dying player that is not yet
\* dead keeps moving in every processed call, and keeps painting outside
\* its holes; and counting the processed calls (those outside the startup
\* window) made after the call that flagged it, the player is dead at the
\* latest in call number afterDieTime + 2.
C35_DyingSticky ==
    [][obs'.op = "draw"
       => /\ pool[1].dying => pool'[1].dying
          /\ (pool[1].dying /\ ~pool[1].dead
                /\ ~(2 < obs'.c /\ obs'.c < pool[1].startTime) /\ ~obs'.died)
                => /\ obs'.moved
                   /\ obs'.stroke <=> ~pool'[1].hole
          /\ (pool'[1].dying /\ ~pool'[1].dead)
                => obs'.sinceHit <= pool[1].afterDieTime + 1
          /\ (obs'.died /\ ~pool[1].dead)
                => obs'.sinceHit <= pool[1].afterDieTime + 2]_vars

\* a dying player whose later collision check found nothing: still dying,
\* moved and painted
C35_Witness ==
    /\ obs.op = "draw" /\ obs.hitAt > 0 /\ obs.c > obs.hitAt
    /\ obs.checked /\ ~obs.out /\ ~obs.trail
    /\ obs.moved /\ obs.stroke
    /\ pool[1].dying /\ ~pool[1].dead
    /\ obs.sinceHit = pool[1].afterDieTime

(***************************************************************************)
(* Properties of the Game controller                                       *)
(***************************************************************************)

\* C36: in the Game wiring an animate() call of the manager invokes at most
\* one callback; onNewRound leaves running true at the end of that same
\* call and onFinish leaves the Game in the End state, so that over
\* consecutive calls with the continue key held a round end is answered by
\* one callback only; and the manager's animate() is called in the Playing
\* state only, hence not after onFinish until a match is started again.
C36_OneCallbackPerRoundEnd ==
    [][/\ last'.op = "animate"
          => /\ last'.newRound + last'.finish <= 1
             /\ last'.newRound = 1 => running'
             /\ last'.finish = 1 => state' = "end"
             /\ heldCalls' <= 1
       /\ state # "playing" => last'.op # "animate"]_vars

\* the key held while idle after the first round: one onNewRound, and the
\* second round is running
C36_Witness ==
    /\ host = "game"
    /\ last.op = "animate" /\ ~last.wasRunning /\ last.space
    /\ last.newRound = 1 /\ last.finish = 0
    /\ running /\ roundCount = 1 /\ roundsStarted = 2
    /\ heldCalls = 1

C38_EndScreenWaits ==
    [][/\ (last'.op = "animate" /\ last'.finish = 1)
          => (state' = "end" /\ endActive' /\ endCounter' = 0)
       /\ (state = "end" /\ last'.op = "other" /\ keySpace' = keySpace)
          => /\ endCounter' = endCounter + 1
             /\ state' = IF keySpace /\ endCounter' > waitTime
                         THEN "select" ELSE "end"
       /\ (state = "end" /\ state' # "end")
          => (keySpace /\ endCounter' > waitTime /\ state' = "select")]_vars

\* the end screen after waitTime listen() calls, the key down: still shown
C38_Witness ==
    /\ state = "end" /\ endActive
    /\ keySpace
    /\ endCounter = waitTime

\* C39: Game.init() reads no component before it has been created: the
\* call reads no unassigned field, and when it returns every component is
\* assigned.
C39_CreatedBeforeUse ==
    obs.op = "init"
        => /\ obs.missing = "none"
           /\ \A i \in 1..Len(ComponentNames) :
                 ComponentNames[i] \in obs.components

(***************************************************************************)
(* Properties of the score board                                           *)
(***************************************************************************)

\* C31: incrementScores(deadName, players) adds exactly 1 to the score of
\* every player whose name differs from deadName and whose dead flag is
\* false, and leaves every other player (the named one and the players
\* already dead) and every dead flag as they were.
C31_AwardOthers ==
    [][last'.op = "incrementScores"
       => /\ Len(pool') = Len(pool)
          /\ \A i \in 1..Len(pool) :
                /\ pool'[i].dead = pool[i].dead
                /\ IF pool[i].name # TemplateNames[last'.arg] /\ ~pool[i].dead
                   THEN pool'[i] = [pool[i] EXCEPT !.score = pool[i].score + 1]
                   ELSE pool'[i] = pool[i]]_vars

\* a roster of three, the second named, the first already dead: only the
\* third has the point
C31_Witness ==
    /\ last.op = "incrementScores" /\ last.arg = 2
    /\ Len(pool) = 3
    /\ pool[1].dead /\ pool[1].score = 0
    /\ ~pool[2].dead /\ pool[2].score = 0
    /\ ~pool[3].dead /\ pool[3].score = 1

====
